---- MODULE Spec2Model ----
(***************************************************************************)
(* block-analyser: scan of a block-height range over the undo data of a    *)
(* chainstate (src/src/main.rs).  The model covers is_p2tr, the parallel   *)
(* per-height closure of process_blocks, the final sort, and               *)
(* write_results_to_csv.  The bitcoinkernel library is external: what its  *)
(* calls return is fixed by `chain`, an unchanged chain database.          *)
(***************************************************************************)
EXTENDS Integers, Sequences, FiniteSets, TLC

VARIABLES
    chain,          \* the chain database behind the ChainstateManager
    start, end,     \* Args.start, Args.end
    pending,        \* heights of block_heights no worker has begun yet
    pc,             \* per worker thread: position inside the closure
    cur,            \* per worker thread: *height of the item it runs
    loc,            \* per worker thread: the closure's local counters
    results,        \* the Vec behind `results` (push order)
    results_lock,   \* holder of the `results` mutex
    progress,       \* the pair behind `progress`
    progress_lock,  \* holder of the `progress` mutex
    pcMain,         \* position of the main thread
    final_results,  \* value returned by process_blocks
    csv,            \* lines written to the output file
    run, prev_csv,  \* number of this run; the output of the run before
    spk, ret        \* argument and return value of a call of is_p2tr

vars == <<chain, start, end, pending, pc, cur, loc, results, results_lock,
          progress, progress_lock, pcMain, final_results, csv, run, prev_csv,
          spk, ret>>

----------------------------------------------------------------------------
(* Bounds of the model *)

MaxHeight == 2
NumThreads == 2
MaxTx == 2
MaxIn == 2
MaxSpkLen == 35

(* Program constants *)

P2TR_LEN == 34
OP_1 == 81
OP_PUSHBYTES_32 == 32

Heights == 0..MaxHeight
Threads == 1..NumThreads
NoHeight == -1
Free == 0

----------------------------------------------------------------------------
(* Classifier *)

\* spk_bytes[i] on a slice: out of bounds is a panic
InBounds(s, i) == i < Len(s)

\* the same check without the length test
is_p2tr_nolen(s) ==
    IF ~InBounds(s, 0) \/ ~InBounds(s, 1) THEN "panic"
    ELSE IF s[1] = OP_1 /\ s[2] = OP_PUSHBYTES_32 THEN "true" ELSE "false"

is_p2tr(s) ==
    IF Len(s) # P2TR_LEN THEN "false"
    ELSE IF ~InBounds(s, 0) \/ ~InBounds(s, 1) THEN "panic"
    ELSE IF s[1] = OP_1 /\ s[2] = OP_PUSHBYTES_32 THEN "true" ELSE "false"

ByteSamples == {0, 32, 80, 81, 82, 255}
FillSamples == {0, 81}

MkSpk(len, b0, b1, fill) ==
    [i \in 1..len |-> IF i = 1 THEN b0 ELSE IF i = 2 THEN b1 ELSE fill]


----------------------------------------------------------------------------
(* Kernel Client: the answers of the bitcoinkernel calls, read off `chain` *)

ScriptNames == {"p2tr", "p2wsh"}
PrevoutKinds == ScriptNames \cup {"err"}

\* script public keys held by the prevouts of the chain
ScriptBytes(name) ==
    CASE name = "p2tr"   -> MkSpk(P2TR_LEN, OP_1, OP_PUSHBYTES_32, 7)
      [] name = "p2wsh"  -> MkSpk(34, 0, 32, 7)
      [] name = "p2wpkh" -> MkSpk(22, 0, 20, 7)

NotFoundBlock == [status |-> "not_found", txs |-> <<>>]
UndoErrBlock == [status |-> "undo_err", txs |-> <<>>]
OkBlock(txs) == [status |-> "ok", txs |-> txs]

get_block_index_by_height(h) ==
    IF h \in DOMAIN chain /\ chain[h].status # "not_found" THEN "ok" ELSE "err"

read_undo_data(h) ==
    IF chain[h].status = "ok" THEN [ok |-> TRUE, undo |-> chain[h].txs]
    ELSE [ok |-> FALSE, undo |-> <<>>]

n_tx_undo(undo) == Len(undo)

get_transaction_undo_size(undo, i) == Len(undo[i + 1])

\* "err", or the prevout (named by its script)
get_prevout_by_index(undo, i, j) == undo[i + 1][j + 1]

get_script_pubkey(prevout) == ScriptBytes(prevout)

----------------------------------------------------------------------------
(* The closure of process_blocks: local counters and the two loops.        *)
(* The counters are u32/u64 in the source and are cast to u32 at the push; *)
(* a block cannot hold 2^32 inputs, so the counts are plain integers here. *)
(* info!/warn! lines are output only and are not part of the state.        *)

ZeroLocals ==
    [mixed_tx_count |-> 0, schnorr_count |-> 0, non_schnorr_count |-> 0,
     total_txs |-> 0, total_inputs |-> 0]

\* body of the inner loop, one prevout
ScanPrevout(undo, i, j, a) ==
    LET prevout == get_prevout_by_index(undo, i, j) IN
    IF prevout = "err" THEN a
    ELSE IF is_p2tr(get_script_pubkey(prevout)) = "true"
         THEN [a EXCEPT !.has_schnorr = TRUE, !.schnorr_count = @ + 1]
         ELSE [a EXCEPT !.has_non_schnorr = TRUE, !.non_schnorr_count = @ + 1]

RECURSIVE ScanPrevouts(_, _, _, _)
ScanPrevouts(undo, i, j, a) ==
    IF j >= get_transaction_undo_size(undo, i) THEN a
    ELSE ScanPrevouts(undo, i, j + 1, ScanPrevout(undo, i, j, a))

\* "||" written for "&&"
IsMixedOr(a) == a.has_schnorr \/ a.has_non_schnorr

IsMixed(a) == a.has_schnorr /\ a.has_non_schnorr

\* body of the outer loop, one transaction
ScanTx(undo, i, l) ==
    LET a == ScanPrevouts(undo, i, 0,
                 [has_schnorr |-> FALSE, has_non_schnorr |-> FALSE,
                  schnorr_count |-> l.schnorr_count,
                  non_schnorr_count |-> l.non_schnorr_count])
    IN [l EXCEPT !.total_inputs = @ + get_transaction_undo_size(undo, i),
                 !.schnorr_count = a.schnorr_count,
                 !.non_schnorr_count = a.non_schnorr_count,
                 !.mixed_tx_count = IF IsMixed(a) THEN @ + 1 ELSE @]

RECURSIVE ScanUndo(_, _, _)
ScanUndo(undo, i, l) ==
    IF i >= n_tx_undo(undo) THEN l
    ELSE ScanUndo(undo, i + 1, ScanTx(undo, i, l))

ProcessUndo(undo, l) ==
    ScanUndo(undo, 0, [l EXCEPT !.total_txs = n_tx_undo(undo)])

BlockResult(height, l) ==
    [height |-> height, total_txs |-> l.total_txs,
     total_inputs |-> l.total_inputs, mixed_tx_count |-> l.mixed_tx_count,
     schnorr_sigs |-> l.schnorr_count, non_schnorr_sigs |-> l.non_schnorr_count]

\* the range taken between the smaller and the larger argument
block_heights_unordered(s, e) == IF s <= e THEN s..e ELSE e..s

block_heights(s, e) == s..e


\* the sort left out: the push order is returned
sort_missing(v) == v

\* the sort with the comparison reversed
RECURSIVE sort_descending(_)
sort_descending(v) ==
    IF Len(v) <= 1 THEN v
    ELSE LET init == sort_descending(SubSeq(v, 1, Len(v) - 1))
             x == v[Len(v)]
             pos == Cardinality({i \in 1..Len(init) : init[i].height >= x.height})
         IN SubSeq(init, 1, pos) \o <<x>> \o SubSeq(init, pos + 1, Len(init))

\* Vec::sort_by_key(|r| r.height): a stable sort, ascending by height
RECURSIVE sort_by_key(_)
sort_by_key(v) ==
    IF Len(v) <= 1 THEN v
    ELSE LET init == sort_by_key(SubSeq(v, 1, Len(v) - 1))
             x == v[Len(v)]
             pos == Cardinality({i \in 1..Len(init) : init[i].height <= x.height})
         IN SubSeq(init, 1, pos) \o <<x>> \o SubSeq(init, pos + 1, Len(init))

----------------------------------------------------------------------------
(* Reporter *)

Header ==
    <<"height,total_txs,total_inputs,mixed_tx_count,schnorr_sigs,non_schnorr_sigs">>

Digits == <<"0", "1", "2", "3", "4", "5", "6", "7", "8", "9">>

\* "{}" of an integer
RECURSIVE Decimal(_)
Decimal(n) ==
    IF n < 0 THEN <<"-">> \o Decimal(-n)
    ELSE IF n < 10 THEN <<Digits[n + 1]>>
    ELSE Decimal(n \div 10) \o <<Digits[(n % 10) + 1]>>

\* "{},{},{},{},{},{}" of one result
FormatRow(r) ==
    Decimal(r.height) \o <<",">> \o Decimal(r.total_txs) \o <<",">> \o
    Decimal(r.total_inputs) \o <<",">> \o Decimal(r.mixed_tx_count) \o <<",">> \o
    Decimal(r.schnorr_sigs) \o <<",">> \o Decimal(r.non_schnorr_sigs)

\* the lines of the file after a write that succeeds
CsvLines(rs) == <<Header>> \o [i \in 1..Len(rs) |-> FormatRow(rs[i])]

----------------------------------------------------------------------------
(* Worker threads: one run of the closure per height.                      *)
(* Mutex::lock returns Err only for a poisoned mutex, that is after a      *)
(* panic inside a critical section; neither critical section can panic,    *)
(* so a lock, once acquired, is Ok.                                        *)

Take(w) ==
    /\ pcMain = "scan"
    /\ pc[w] = "idle"
    /\ \E h \in pending :
          /\ pending' = pending \ {h}
          /\ cur' = [cur EXCEPT ![w] = h]
    /\ loc' = [loc EXCEPT ![w] = ZeroLocals]
    /\ pc' = [pc EXCEPT ![w] = "read_block"]
    /\ UNCHANGED <<chain, start, end, results, results_lock, progress,
                   progress_lock, pcMain, final_results, csv, run, prev_csv,
                   spk, ret>>

\* a failed lookup recorded with zero counts instead of being skipped
KernelCallsZeroFill(h) ==
    IF get_block_index_by_height(h) = "ok"
    THEN [found |-> TRUE,
          loc |-> IF read_undo_data(h).ok
                  THEN ProcessUndo(read_undo_data(h).undo, ZeroLocals)
                  ELSE ZeroLocals]
    ELSE [found |-> TRUE, loc |-> ZeroLocals]

\* a failed undo read that leaves the closure like a failed lookup
KernelCallsSkipUndoErr(h) ==
    IF get_block_index_by_height(h) = "ok" /\ read_undo_data(h).ok
    THEN [found |-> TRUE, loc |-> ProcessUndo(read_undo_data(h).undo, ZeroLocals)]
    ELSE [found |-> FALSE, loc |-> ZeroLocals]

\* the closure up to its first lock: the block index, the undo data and the
\* counters; `found` says whether the outer if-let matched
KernelCalls(h) ==
    IF get_block_index_by_height(h) = "ok"
    THEN [found |-> TRUE,
          loc |-> IF read_undo_data(h).ok
                  THEN ProcessUndo(read_undo_data(h).undo, ZeroLocals)
                  ELSE ZeroLocals]
    ELSE [found |-> FALSE, loc |-> ZeroLocals]

ReadBlock(w) ==
    /\ pc[w] = "read_block"
    /\ LET k == KernelCalls(cur[w]) IN
       IF k.found
       THEN /\ loc' = [loc EXCEPT ![w] = k.loc]
            /\ pc' = [pc EXCEPT ![w] = "lock_results"]
            /\ UNCHANGED cur
       ELSE /\ pc' = [pc EXCEPT ![w] = "idle"]
            /\ cur' = [cur EXCEPT ![w] = NoHeight]
            /\ UNCHANGED loc
    /\ UNCHANGED <<chain, start, end, pending, results, results_lock,
                   progress, progress_lock, pcMain, final_results, csv, run,
                   prev_csv, spk, ret>>

\* a push that does not wait for the mutex
LockResultsNoWait(w) ==
    /\ pc[w] = "lock_results"
    /\ results_lock' = w
    /\ pc' = [pc EXCEPT ![w] = "push"]
    /\ UNCHANGED <<chain, start, end, pending, cur, loc, results, progress,
                   progress_lock, pcMain, final_results, csv, run, prev_csv,
                   spk, ret>>

LockResults(w) ==
    /\ pc[w] = "lock_results"
    /\ results_lock = Free
    /\ results_lock' = w
    /\ pc' = [pc EXCEPT ![w] = "push"]
    /\ UNCHANGED <<chain, start, end, pending, cur, loc, results, progress,
                   progress_lock, pcMain, final_results, csv, run, prev_csv,
                   spk, ret>>

\* the results guard kept alive past the push
PushKeepLock(w) ==
    /\ pc[w] = "push"
    /\ results' = Append(results, BlockResult(cur[w], loc[w]))
    /\ pc' = [pc EXCEPT ![w] = "lock_progress"]
    /\ UNCHANGED <<chain, start, end, pending, cur, loc, results_lock, progress,
                   progress_lock, pcMain, final_results, csv, run, prev_csv,
                   spk, ret>>

Push(w) ==
    /\ pc[w] = "push"
    /\ results' = Append(results, BlockResult(cur[w], loc[w]))
    /\ results_lock' = Free
    /\ pc' = [pc EXCEPT ![w] = "lock_progress"]
    /\ UNCHANGED <<chain, start, end, pending, cur, loc, progress,
                   progress_lock, pcMain, final_results, csv, run, prev_csv,
                   spk, ret>>

LockProgress(w) ==
    /\ pc[w] = "lock_progress"
    /\ progress_lock = Free
    /\ progress_lock' = w
    /\ pc' = [pc EXCEPT ![w] = "update_progress"]
    /\ UNCHANGED <<chain, start, end, pending, cur, loc, results, results_lock,
                   progress, pcMain, final_results, csv, run, prev_csv, spk, ret>>

\* the counter is incremented; the progress line (every 10000 blocks, and
\* at the last one) is logged and the guard dropped; the closure ends
UpdateProgress(w) ==
    /\ pc[w] = "update_progress"
    /\ progress' = [progress EXCEPT !.done = @ + 1]
    /\ progress_lock' = Free
    /\ pc' = [pc EXCEPT ![w] = "idle"]
    /\ cur' = [cur EXCEPT ![w] = NoHeight]
    /\ loc' = [loc EXCEPT ![w] = ZeroLocals]
    /\ UNCHANGED <<chain, start, end, pending, results, results_lock, pcMain,
                   final_results, csv, run, prev_csv, spk, ret>>

----------------------------------------------------------------------------
(* Main thread *)

\* for_each has returned: every item was run and every closure has ended
FinalSort ==
    /\ pcMain = "scan"
    /\ pending = {}
    /\ \A w \in Threads : pc[w] = "idle"
    /\ results_lock = Free
    /\ final_results' = sort_by_key(results)
    /\ pcMain' = "returned"
    /\ UNCHANGED <<chain, start, end, pending, pc, cur, loc, results,
                   results_lock, progress, progress_lock, csv, run, prev_csv,
                   spk, ret>>

WriteCsv ==
    /\ pcMain = "returned"
    /\ csv' = CsvLines(final_results)
    /\ pcMain' = "done"
    /\ UNCHANGED <<chain, start, end, pending, pc, cur, loc, results,
                   results_lock, progress, progress_lock, final_results, run,
                   prev_csv, spk, ret>>

\* File::create or a writeln! fails: the lines before it stay, exit(1)
WriteCsvFail ==
    /\ pcMain = "returned"
    /\ \E k \in 0..Len(final_results) :
          csv' = SubSeq(CsvLines(final_results), 1, k)
    /\ pcMain' = "exit1"
    /\ UNCHANGED <<chain, start, end, pending, pc, cur, loc, results,
                   results_lock, progress, progress_lock, final_results, run,
                   prev_csv, spk, ret>>

\* the program is run a second time, same arguments, same chain
Restart ==
    /\ pcMain = "done"
    /\ run = 1
    /\ run' = run + 1
    /\ prev_csv' = csv
    /\ pending' = block_heights(start, end)
    /\ results' = <<>>
    /\ progress' = [done |-> 0, total |-> Cardinality(block_heights(start, end))]
    /\ final_results' = <<>>
    /\ csv' = <<>>
    /\ pcMain' = "scan"
    /\ UNCHANGED <<chain, start, end, pc, cur, loc, results_lock,
                   progress_lock, spk, ret>>

CallIsP2tr ==
    /\ pcMain = "classifier"
    /\ ret = "none"
    /\ ret' = is_p2tr(spk)
    /\ UNCHANGED <<chain, start, end, pending, pc, cur, loc, results,
                   results_lock, progress, progress_lock, pcMain,
                   final_results, csv, run, prev_csv, spk>>

----------------------------------------------------------------------------
(* Specifications *)

ExampleTxs == << <<"p2tr", "p2wsh">>, <<"p2wsh", "p2wsh">> >>

Palette == {NotFoundBlock, UndoErrBlock, OkBlock(ExampleTxs)}

SeqsUpTo(S, n) == UNION {[1..k -> S] : k \in 0..n}

AllBlocks ==
    {NotFoundBlock, UndoErrBlock} \cup
    {OkBlock(t) : t \in SeqsUpTo(SeqsUpTo(PrevoutKinds, MaxIn), MaxTx)}

\* state at the entry of process_blocks
InitRun ==
    /\ pending = block_heights(start, end)
    /\ pc = [w \in Threads |-> "idle"]
    /\ cur = [w \in Threads |-> NoHeight]
    /\ loc = [w \in Threads |-> ZeroLocals]
    /\ results = <<>>
    /\ results_lock = Free
    /\ progress = [done |-> 0, total |-> Cardinality(block_heights(start, end))]
    /\ progress_lock = Free
    /\ pcMain = "scan"
    /\ final_results = <<>>
    /\ csv = <<>>
    /\ run = 1
    /\ prev_csv = <<>>
    /\ spk = <<>>
    /\ ret = "none"

Init ==
    /\ chain \in [Heights -> Palette]
    /\ start \in Heights
    /\ end \in Heights
    /\ InitRun

\* the same with blocks that are either missing or complete
InitLocks ==
    /\ chain \in [Heights -> {NotFoundBlock, OkBlock(ExampleTxs)}]
    /\ start \in Heights
    /\ end \in Heights
    /\ InitRun

InitBlock ==
    /\ start = 0
    /\ end = 0
    /\ \E b \in AllBlocks : chain = [h \in Heights |-> IF h = 0 THEN b ELSE NotFoundBlock]
    /\ InitRun

InitClassifier ==
    /\ chain = [h \in Heights |-> NotFoundBlock]
    /\ start = 0
    /\ end = 0
    /\ pending = {}
    /\ pc = [w \in Threads |-> "idle"]
    /\ cur = [w \in Threads |-> NoHeight]
    /\ loc = [w \in Threads |-> ZeroLocals]
    /\ results = <<>>
    /\ results_lock = Free
    /\ progress = [done |-> 0, total |-> 0]
    /\ progress_lock = Free
    /\ pcMain = "classifier"
    /\ final_results = <<>>
    /\ csv = <<>>
    /\ run = 1
    /\ prev_csv = <<>>
    /\ \E len \in 0..MaxSpkLen, b0 \in ByteSamples, b1 \in ByteSamples,
          fill \in FillSamples : spk = MkSpk(len, b0, b1, fill)
    /\ ret = "none"

Worker(w) ==
    \/ Take(w)
    \/ ReadBlock(w)
    \/ LockResults(w)
    \/ Push(w)
    \/ LockProgress(w)
    \/ UpdateProgress(w)

NextScan ==
    \/ \E w \in Threads : Worker(w)
    \/ FinalSort
    \/ WriteCsv
    \/ WriteCsvFail

Next ==
    \/ \E w \in Threads : Worker(w)
    \/ FinalSort
    \/ WriteCsv
    \/ WriteCsvFail
    \/ Restart

NextClassifier == CallIsP2tr

Spec == Init /\ [][Next]_vars

SpecScan == Init /\ [][NextScan]_vars

SpecLocks == InitLocks /\ [][NextScan]_vars

SpecBlock == InitBlock /\ [][NextScan]_vars

SpecClassifier == InitClassifier /\ [][NextClassifier]_vars


----------------------------------------------------------------------------
(* Properties *)

Returned == pcMain \in {"returned", "done", "exit1"}

InRange(h) == start <= h /\ h <= end

ResultsFor(h) == {i \in 1..Len(final_results) : final_results[i].height = h}

\* a Taproot script, read off the bytes
IsTaprootScript(b) == Len(b) = 34 /\ b[1] = 81 /\ b[2] = 32

TaprootPrevout(p) == p # "err" /\ IsTaprootScript(ScriptBytes(p))
NonTaprootPrevout(p) == p # "err" /\ ~IsTaprootScript(ScriptBytes(p))

MixedTxs(txs) ==
    {i \in 1..Len(txs) :
        /\ \E j \in 1..Len(txs[i]) : TaprootPrevout(txs[i][j])
        /\ \E j \in 1..Len(txs[i]) : NonTaprootPrevout(txs[i][j])}

RECURSIVE SumLens(_)
SumLens(txs) ==
    IF txs = <<>> THEN 0 ELSE Len(Head(txs)) + SumLens(Tail(txs))

ZeroResult(h) ==
    [height |-> h, total_txs |-> 0, total_inputs |-> 0, mixed_tx_count |-> 0,
     schnorr_sigs |-> 0, non_schnorr_sigs |-> 0]

KernelCallSites == {"read_block"}

\* C1: in every BlockResult returned by process_blocks, whatever the undo
\* data and whatever each prevout retrieval answers, schnorr_sigs +
\* non_schnorr_sigs equals total_inputs.
C1_SigsSumToInputs ==
    Returned =>
        \A i \in 1..Len(final_results) :
            final_results[i].schnorr_sigs + final_results[i].non_schnorr_sigs
                = final_results[i].total_inputs

\* C2: the sequence returned by process_blocks is strictly ascending by
\* height (so no height occurs twice) and every height lies in [start, end],
\* whatever order the workers pushed in.
C2_SortedUniqueInRange ==
    Returned =>
        /\ \A i, j \in 1..Len(final_results) :
              i < j => final_results[i].height < final_results[j].height
        /\ \A i \in 1..Len(final_results) : InRange(final_results[i].height)

\* the workers pushed in descending order and the result is returned
C2_Witness ==
    /\ Returned
    /\ Len(results) >= 2
    /\ results[1].height > results[2].height
    /\ Len(final_results) = Len(results)

\* C3: a height of the range whose block-index lookup fails gets no
\* BlockResult, and every other height of the range, whose lookup succeeds,
\* gets exactly one: the scan is not aborted.
C3_LookupFailureSkipsOnlyThatHeight ==
    Returned =>
        \A h \in Heights :
            InRange(h) =>
                IF chain[h].status = "not_found"
                THEN ResultsFor(h) = {}
                ELSE Cardinality(ResultsFor(h)) = 1

\* the lookup fails in the middle of the range, both neighbours are reported
C3_Witness ==
    /\ Returned
    /\ \E h \in Heights :
          /\ chain[h].status = "not_found"
          /\ InRange(h - 1) /\ InRange(h + 1)
          /\ ResultsFor(h) = {}
          /\ ResultsFor(h - 1) # {}
          /\ ResultsFor(h + 1) # {}

\* C4: a height whose block index is found but whose undo data cannot be
\* read gets exactly one BlockResult, and all five counts of it are 0.
C4_UndoFailureZeroFilled ==
    Returned =>
        \A h \in Heights :
            (InRange(h) /\ chain[h].status = "undo_err") =>
                /\ Cardinality(ResultsFor(h)) = 1
                /\ \A i \in ResultsFor(h) : final_results[i] = ZeroResult(h)

C4_Witness ==
    /\ Returned
    /\ \E h \in Heights :
          /\ InRange(h)
          /\ chain[h].status = "undo_err"
          /\ \E i \in 1..Len(final_results) : final_results[i] = ZeroResult(h)

\* C5: for a block with undo data, mixed_tx_count is the number of
\* transactions holding a Taproot prevout and a non-Taproot prevout,
\* total_txs the number of transactions, total_inputs the sum of their
\* prevout counts, mixed_tx_count <= total_txs; the two-transaction example
\* gives 2, 4, 1, 1, 3.
C5_CountsMatchUndoData ==
    Returned =>
        \A i \in 1..Len(final_results) :
            LET r == final_results[i]
                b == chain[r.height]
            IN b.status = "ok" =>
                /\ r.mixed_tx_count = Cardinality(MixedTxs(b.txs))
                /\ r.total_txs = Len(b.txs)
                /\ r.total_inputs = SumLens(b.txs)
                /\ r.mixed_tx_count <= r.total_txs
                /\ b.txs = ExampleTxs =>
                      r = [height |-> r.height, total_txs |-> 2,
                           total_inputs |-> 4, mixed_tx_count |-> 1,
                           schnorr_sigs |-> 1, non_schnorr_sigs |-> 3]

C5_Witness ==
    /\ Returned
    /\ chain[0] = OkBlock(ExampleTxs)
    /\ final_results = <<[height |-> 0, total_txs |-> 2, total_inputs |-> 4,
                          mixed_tx_count |-> 1, schnorr_sigs |-> 1,
                          non_schnorr_sigs |-> 3]>>

\* C6: is_p2tr answers true exactly for a script of 34 bytes whose first
\* byte is 0x51 and whose second is 0x20; for every other byte sequence,
\* the empty one and one of a single byte included, it answers false and
\* does not panic.
C6_IsP2trExact ==
    ret # "none" =>
        ret = IF Len(spk) = 34 /\ spk[1] = 81 /\ spk[2] = 32
              THEN "true" ELSE "false"

C6_Witness == ret = "true" /\ Len(spk) = 34 /\ spk[1] = 81 /\ spk[2] = 32

\* C7: with start > end no worker ever reaches a Kernel Client call,
\* process_blocks returns the empty sequence, and the CSV written holds the
\* header line alone.
C7_EmptyRange ==
    start > end =>
        /\ \A w \in Threads : pc[w] = "idle"
        /\ results = <<>>
        /\ Returned => final_results = <<>>
        /\ pcMain = "done" => csv = <<Header>>

C7_Witness == start > end /\ pcMain = "done" /\ csv = <<Header>>

\* C8: a second run over the same range on the unchanged chain writes the
\* same CSV as the first, line for line, whatever the workers' interleaving.
C8_RerunSameCsv ==
    (run > 1 /\ pcMain = "done") => csv = prev_csv

\* the second run ended, its workers having pushed out of order
C8_Witness ==
    /\ run > 1
    /\ pcMain = "done"
    /\ Len(results) >= 2
    /\ results[1].height > results[2].height
    /\ csv = prev_csv

NoLockAtKernelCall ==
    \A w \in Threads :
        pc[w] \in KernelCallSites => results_lock # w /\ progress_lock # w

AppendsExclusive ==
    /\ Cardinality({w \in Threads : pc[w] = "push"}) <= 1
    /\ \A w \in Threads : pc[w] = "push" <=> results_lock = w

\* heights whose closure is past its push
Pushed ==
    {h \in Heights :
        /\ InRange(h)
        /\ h \notin pending
        /\ chain[h].status # "not_found"
        /\ \A w \in Threads :
              cur[w] = h => pc[w] \in {"lock_progress", "update_progress"}}

NoAppendLost ==
    /\ Len(results) = Cardinality(Pushed)
    /\ \A h \in Pushed : \E i \in 1..Len(results) : results[i].height = h

\* C9 as stated: no lock is held at a Kernel Client call, the critical
\* section around the push onto the results is the only one, pushes exclude
\* each other and none is lost.
C9_OnlyResultsCriticalSection ==
    /\ NoLockAtKernelCall
    /\ progress_lock = Free
    /\ AppendsExclusive
    /\ NoAppendLost

\* C9 amended: no lock is held at a Kernel Client call; a worker has two
\* critical sections, the push onto the results and, after it, the update
\* of the progress counter; pushes exclude each other and none is lost.
C9_TwoCriticalSections ==
    /\ NoLockAtKernelCall
    /\ \A w \in Threads : pc[w] = "update_progress" <=> progress_lock = w
    /\ AppendsExclusive
    /\ NoAppendLost

\* one worker is inside the push while another waits for the mutex
C9_Witness ==
    \E w1, w2 \in Threads :
        /\ pc[w1] = "push"
        /\ results_lock = w1
        /\ pc[w2] = "lock_results"

NeverBothLocks ==
    \A w \in Threads :
        /\ ~(results_lock = w /\ progress_lock = w)
        /\ pc[w] \in {"lock_progress", "update_progress"} => results_lock # w

Found == {h \in Heights : InRange(h) /\ chain[h].status # "not_found"}

EachHeightOnce ==
    /\ progress.done <= progress.total
    /\ Returned =>
          /\ pending = {}
          /\ progress.done = Cardinality(Found)
          /\ Len(results) = Cardinality(Found)
          /\ \A h \in Found :
                Cardinality({i \in 1..Len(results) : results[i].height = h}) = 1

\* steps left to a worker inside the closure it runs
StepsLeft(p) ==
    CASE p = "idle" -> 0
      [] p = "update_progress" -> 1
      [] p = "lock_progress" -> 2
      [] p = "push" -> 3
      [] p = "lock_results" -> 4
      [] p = "read_block" -> 5

RECURSIVE SumSteps(_)
SumSteps(W) ==
    IF W = {} THEN 0
    ELSE LET w == CHOOSE x \in W : TRUE
         IN StepsLeft(pc[w]) + SumSteps(W \ {w})

\* work left to the scan: bounded below by 0
WorkLeft == 6 * Cardinality(pending) + SumSteps(Threads)

\* C10: a worker never holds the results mutex and the progress mutex
\* together; the scan never deadlocks (until process_blocks has returned
\* some step is enabled) and every step of it lowers the work left, so
\* process_blocks returns; when it does, every height of the range has been
\* processed exactly once.
C10_NoDeadlockTerminates ==
    /\ [](NeverBothLocks /\ EachHeightOnce /\ (Returned \/ ENABLED NextScan))
    /\ [][(pcMain = "scan" /\ pcMain' = "scan") => WorkLeft' < WorkLeft]_vars

\* the two mutexes are held at once, by two workers
C10_Witness ==
    \E w1, w2 \in Threads :
        /\ w1 # w2
        /\ results_lock = w1
        /\ progress_lock = w2

====
